---- MODULE Spec2Model ----
(***************************************************************************)
(* Model of src/train.py: the train / validate / test passes, the epoch    *)
(* loop of train_model with its best-weights bookkeeping, and              *)
(* save_checkpoint.                                                        *)
(*                                                                         *)
(* Modelling conventions                                                   *)
(*  - A data loader over n examples with batch size b yields batches of b  *)
(*    examples and a ragged last batch of n % b examples (the DataLoader   *)
(*    default, drop_last = False).                                         *)
(*  - The model, the loss and the optimizer are opaque.  The weights are   *)
(*    an integer value; every optimizer.step() produces a new value.  The  *)
(*    number of correct predictions of a batch is any number between 0 and *)
(*    the size of the batch.                                               *)
(*  - Accuracies are exact rationals [num, den]; torch.sum of a tensor is  *)
(*    a Python number and "/" is true division.                            *)
(*  - model.state_dict() returns tensors that share storage with the live  *)
(*    parameters; torch.save serialises the values.                        *)
(*  - CustomReduceLROnPlateau is not part of train.py; its bad-epoch       *)
(*    counter is modelled from its description.                            *)
(***************************************************************************)
EXTENDS Integers, Sequences, FiniteSets, TLC

\* ---------------------------------------------------------------- bounds
MaxTrainN == 3        \* examples of the training set, train_model runs
MaxValN == 2          \* examples of the validation set
MaxTestN == 2         \* examples of the test set
MaxBatch == 2         \* batch size of the loaders, train_model runs
MaxEpochs == 3        \* num_epochs
MaxStartEpoch == 1    \* start_epoch
MaxPatience == 1      \* maxPatienceToStopTraining
MaxPassN == 10        \* examples of the training set, a single train pass
MaxPassBatch == 4     \* batch size, a single train pass

\* ------------------------------------------------------ program constants
DiagEvery == 100
NoFile == [exists |-> FALSE]
InitialBestAccs == {0, 50}   \* values of the best_accuracy argument (percent)

VARIABLES
    entry,          \* the function that was called from outside
    pc,             \* position of the control flow
    Ntrain, Nval, Ntest, batch_size,
    num_epochs, start_epoch, best_accuracy,
    sched_kind, maxPatienceToStopTraining,
    epoch,
    weights,        \* live parameters of the model
    opt,            \* optimizer: zero_grad and step calls
    clips,          \* gradient clippings
    example_count, running_corrects, step, diag,    \* locals of train
    val_count, val_corrects,                        \* locals of validate
    test_count, test_corrects, test_acc,            \* locals of test_model
    train_acc, val_acc,
    best_acc, best_model_wts, is_best,
    checkpoint, model_best,                         \* the two files
    ckpt_writes, best_writes, flushes,
    sched,          \* scheduler state
    stopped,        \* the loop left by break
    steps,          \* steps of the current epoch, in order
    h_epochs,       \* epochs begun
    h_best_epochs,  \* epochs in which is_best was true
    h_best_wts,     \* value of the live weights when the snapshot was taken
    h_max_val,      \* largest validation accuracy observed
    h_min_err,      \* smallest validation error observed
    h_improving,    \* every validation error was below all earlier ones
    h_all50         \* every validation accuracy was 50

params == <<Ntrain, Nval, Ntest, batch_size, num_epochs, start_epoch,
            best_accuracy, sched_kind, maxPatienceToStopTraining>>
trainLocals == <<example_count, running_corrects, step, diag>>
valLocals == <<val_count, val_corrects>>
testLocals == <<test_count, test_corrects, test_acc>>
machine == <<weights, opt, clips>>
bestState == <<best_acc, best_model_wts, is_best>>
files == <<checkpoint, model_best, ckpt_writes, best_writes, flushes>>
history == <<h_epochs, h_best_epochs, h_best_wts, h_max_val, h_min_err,
             h_improving, h_all50>>
vars == <<entry, pc, params, epoch, machine, trainLocals, valLocals,
          testLocals, train_acc, val_acc, bestState, files, sched, stopped,
          steps, history>>

\* ------------------------------------------------------------- rationals
Rat(n, d) == [num |-> n, den |-> d]
NoAcc == Rat(0 - 1, 1)
Gt(a, b) == a.num * b.den > b.num * a.den
Lt(a, b) == Gt(b, a)
Eq(a, b) == a.num * b.den = b.num * a.den
Geq(a, b) == ~Lt(a, b)
Min(a, b) == IF a < b THEN a ELSE b

\* ------------------------------------------------------------ data loader
\* size of the batch the loader yields after `pos` examples
BatchSize(n, b, pos) == Min(b, n - pos)

\* ------------------------------------------------------------- accuracies
\* the variant that divides by the examples processed
AccuracyOverCount(corrects, count, n) == Rat(corrects * 100, count)

\* acc = (running_corrects / len(dataloader.dataset)) * 100
Accuracy(corrects, count, n) == Rat(corrects * 100, n)

\* valid_error = 1.0 - val_acc / 100.0
ValidError(acc) == Rat(100 * acc.den - acc.num, 100 * acc.den)

\* the variant that also stops when the next batch would exactly fit
TrainBreakOnFit(count, b, n) == count + b >= n

\* if example_count + dataloader.batch_size > len(dataloader.dataset.targets): break
TrainBreak(count, b, n) == count + b > n

\* the variant in which a tie replaces the best
IsBestOnTie(v, b) == Geq(v, b)

\* is_best = val_acc > best_acc
IsBest(v, b) == Gt(v, b)

\* ------------------------------------------------------------ state_dict
\* model.state_dict(): the returned tensors are views of the live parameters
StateDict(w) == [alias |-> TRUE, val |-> 0]
\* value a state dict denotes while the live parameters hold w
Resolve(sd, w) == IF sd.alias THEN w ELSE sd.val

\* ------------------------------------------------------------- scheduler
NewScheduler == [hasBest |-> FALSE, best |-> Rat(0, 1), bad |-> 0, nsteps |-> 0]

\* CustomReduceLROnPlateau.step(valid_error, epoch): the bad-epoch counter is
\* reset when the error improves on the best one and incremented otherwise
PlateauStep(s, err) ==
    IF ~s.hasBest \/ Lt(err, s.best)
    THEN [hasBest |-> TRUE, best |-> err, bad |-> 0, nsteps |-> s.nsteps + 1]
    ELSE [s EXCEPT !.bad = s.bad + 1, !.nsteps = s.nsteps + 1]

\* CustomReduceLROnPlateau.shouldStopTraining()
ShouldStopTraining(s, patience) == s.bad > patience

\* any other scheduler: step()
OtherStep(s) == [s EXCEPT !.nsteps = s.nsteps + 1]

\* ------------------------------------------------------------------ Init
Init ==
    /\ entry = "none"
    /\ pc = "start"
    /\ Ntrain = 0 /\ Nval = 0 /\ Ntest = 0 /\ batch_size = 1
    /\ num_epochs = 0 /\ start_epoch = 0 /\ best_accuracy = Rat(0, 1)
    /\ sched_kind = "other" /\ maxPatienceToStopTraining = 0
    /\ epoch = 0
    /\ weights = 0
    /\ opt = [zero_grads |-> 0, steps |-> 0]
    /\ clips = 0
    /\ example_count = 0 /\ running_corrects = 0 /\ step = 0 /\ diag = 0
    /\ val_count = 0 /\ val_corrects = 0
    /\ test_count = 0 /\ test_corrects = 0 /\ test_acc = NoAcc
    /\ train_acc = NoAcc /\ val_acc = NoAcc
    /\ best_acc = Rat(0, 1) /\ best_model_wts = StateDict(0) /\ is_best = FALSE
    /\ checkpoint = NoFile /\ model_best = NoFile
    /\ ckpt_writes = 0 /\ best_writes = 0 /\ flushes = 0
    /\ sched = NewScheduler
    /\ stopped = FALSE
    /\ steps = <<>>
    /\ h_epochs = 0 /\ h_best_epochs = 0 /\ h_best_wts = 0
    /\ h_max_val = NoAcc /\ h_min_err = Rat(2, 1)
    /\ h_improving = TRUE /\ h_all50 = TRUE

\* ----------------------------------------------------------- train_model
\* train_model(...) is called: lines 91-97
CallTrainModel ==
    /\ pc = "start"
    /\ \E nt \in 0..MaxTrainN, nv \in 0..MaxValN, b \in 1..MaxBatch,
          ne \in 0..MaxEpochs, se \in 0..MaxStartEpoch,
          ba \in InitialBestAccs, sk \in {"plateau", "other"} :
         \E mp \in (IF sk = "plateau" THEN 0..MaxPatience ELSE {0}) :
            /\ Ntrain' = nt /\ Nval' = nv /\ batch_size' = b
            /\ num_epochs' = ne /\ start_epoch' = se
            /\ best_accuracy' = Rat(ba, 1)
            /\ sched_kind' = sk /\ maxPatienceToStopTraining' = mp
            /\ epoch' = se
            /\ best_acc' = Rat(ba, 1)
    /\ entry' = "train_model"
    /\ best_model_wts' = StateDict(weights)
    /\ h_best_wts' = weights
    /\ pc' = "loop"
    /\ UNCHANGED <<Ntest, machine, trainLocals, valLocals, testLocals,
                   train_acc, val_acc, is_best, files, sched, stopped, steps,
                   h_epochs, h_best_epochs, h_max_val, h_min_err,
                   h_improving, h_all50>>

\* for epoch in range(start_epoch, num_epochs): the next epoch starts and
\* train() initialises its locals (lines 98-103, 13-20)
EpochBegin ==
    /\ pc = "loop"
    /\ epoch < num_epochs
    /\ example_count' = 0 /\ running_corrects' = 0 /\ step' = 0 /\ diag' = 0
    /\ steps' = <<>>
    /\ h_epochs' = h_epochs + 1
    /\ pc' = "train"
    /\ UNCHANGED <<entry, params, epoch, machine, valLocals, testLocals,
                   train_acc, val_acc, bestState, files, sched, stopped,
                   h_best_epochs, h_best_wts, h_max_val, h_min_err,
                   h_improving, h_all50>>

\* the range is exhausted
LoopExit ==
    /\ pc = "loop"
    /\ epoch >= num_epochs
    /\ pc' = "restore"
    /\ UNCHANGED <<entry, params, epoch, machine, trainLocals, valLocals,
                   testLocals, train_acc, val_acc, bestState, files, sched,
                   stopped, steps, history>>

\* ----------------------------------------------------------------- train
\* one iteration of the loop of train(): lines 22-55
TrainBatch ==
    /\ pc = "train"
    /\ example_count < Ntrain
    /\ LET size == BatchSize(Ntrain, batch_size, example_count) IN
       \E c \in 0..size :
          /\ opt' = [zero_grads |-> opt.zero_grads + 1, steps |-> opt.steps + 1]
          /\ clips' = clips + 1
          /\ weights' = weights + 1
          /\ running_corrects' = running_corrects + c
          /\ example_count' = example_count + size
          /\ step' = step + 1
          /\ diag' = IF (step + 1) % DiagEvery = 0 THEN diag + 1 ELSE diag
          /\ pc' = IF TrainBreak(example_count + size, batch_size, Ntrain)
                   THEN "train_end" ELSE "train"
    /\ UNCHANGED <<entry, params, epoch, valLocals, testLocals, train_acc,
                   val_acc, bestState, files, sched, stopped, steps, history>>

\* the loop of train() is over: lines 56-60
TrainReturn ==
    /\ \/ pc = "train_end"
       \/ pc = "train" /\ example_count >= Ntrain
    /\ IF example_count = 0
       THEN \* running_loss / example_count raises ZeroDivisionError
            /\ pc' = "crashed"
            /\ UNCHANGED <<train_acc, steps, valLocals>>
       ELSE /\ train_acc' = Accuracy(running_corrects, example_count, Ntrain)
            /\ steps' = Append(steps, "train")
            /\ val_count' = 0 /\ val_corrects' = 0
            /\ pc' = IF entry = "train" THEN "returned" ELSE "validate"
    /\ UNCHANGED <<entry, params, epoch, machine, trainLocals, testLocals,
                   val_acc, bestState, files, sched, stopped, history>>

\* -------------------------------------------------------------- validate
\* the variant of the loop of validate() that also applies an optimizer step
ValidateBatchStepping ==
    /\ pc = "validate"
    /\ val_count < Nval
    /\ LET size == BatchSize(Nval, batch_size, val_count) IN
       \E c \in 0..size :
          /\ val_corrects' = val_corrects + c
          /\ val_count' = val_count + size
    /\ opt' = [zero_grads |-> opt.zero_grads + 1, steps |-> opt.steps + 1]
    /\ weights' = weights + 1
    /\ UNCHANGED <<entry, pc, params, epoch, clips, trainLocals, testLocals,
                   train_acc, val_acc, bestState, files, sched, stopped,
                   steps, history>>

\* one iteration of the loop of validate(): lines 69-82
ValidateBatch ==
    /\ pc = "validate"
    /\ val_count < Nval
    /\ LET size == BatchSize(Nval, batch_size, val_count) IN
       \E c \in 0..size :
          /\ val_corrects' = val_corrects + c
          /\ val_count' = val_count + size
    /\ UNCHANGED <<entry, pc, params, epoch, machine, trainLocals, testLocals,
                   train_acc, val_acc, bestState, files, sched, stopped,
                   steps, history>>

\* the loop of validate() is over: lines 83-88
ValidateReturn ==
    /\ pc = "validate"
    /\ val_count >= Nval
    /\ IF val_count = 0
       THEN \* running_loss / example_count raises ZeroDivisionError
            /\ pc' = "crashed"
            /\ UNCHANGED <<val_acc, steps, h_max_val, h_min_err, h_improving,
                           h_all50>>
       ELSE LET acc == Accuracy(val_corrects, val_count, Nval)
                err == ValidError(acc) IN
            /\ val_acc' = acc
            /\ steps' = Append(steps, "validate")
            /\ h_max_val' = IF Gt(acc, h_max_val) THEN acc ELSE h_max_val
            /\ h_min_err' = IF Lt(err, h_min_err) THEN err ELSE h_min_err
            /\ h_improving' = (h_improving /\ Lt(err, h_min_err))
            /\ h_all50' = (h_all50 /\ Eq(acc, Rat(50, 1)))
            /\ pc' = "decide"
    /\ UNCHANGED <<entry, params, epoch, machine, trainLocals, valLocals,
                   testLocals, train_acc, bestState, files, sched, stopped,
                   h_epochs, h_best_epochs, h_best_wts>>

\* ------------------------------------------------- train_model, continued
\* lines 119-123
BestDecision ==
    /\ pc = "decide"
    /\ is_best' = IsBest(val_acc, best_acc)
    /\ IF IsBest(val_acc, best_acc)
       THEN /\ best_acc' = val_acc
            /\ best_model_wts' = StateDict(weights)
            /\ h_best_epochs' = h_best_epochs + 1
            /\ h_best_wts' = weights
       ELSE UNCHANGED <<best_acc, best_model_wts, h_best_epochs, h_best_wts>>
    /\ steps' = Append(steps, "decide")
    /\ pc' = "save"
    /\ UNCHANGED <<entry, params, epoch, machine, trainLocals, valLocals,
                   testLocals, train_acc, val_acc, files, sched, stopped,
                   h_epochs, h_max_val, h_min_err, h_improving, h_all50>>

\* the variant that copies the checkpoint to model_best.pth.tar every time
SaveCheckpointAlwaysCopy ==
    /\ pc = "save"
    /\ LET state == [exists |-> TRUE, epoch |-> epoch, best_acc |-> best_acc,
                     state_dict |-> Resolve(StateDict(weights), weights)] IN
       /\ checkpoint' = state
       /\ ckpt_writes' = ckpt_writes + 1
       /\ model_best' = state /\ best_writes' = best_writes + 1
    /\ steps' = Append(steps, "save")
    /\ pc' = "flush"
    /\ UNCHANGED <<entry, params, epoch, machine, trainLocals, valLocals,
                   testLocals, train_acc, val_acc, bestState, flushes, sched,
                   stopped, history>>

\* the variant that stores the accuracy of the epoch as best_acc
SaveCheckpointEpochAcc ==
    /\ pc = "save"
    /\ LET state == [exists |-> TRUE, epoch |-> epoch, best_acc |-> val_acc,
                     state_dict |-> Resolve(StateDict(weights), weights)] IN
       /\ checkpoint' = state
       /\ ckpt_writes' = ckpt_writes + 1
       /\ IF is_best
          THEN model_best' = state /\ best_writes' = best_writes + 1
          ELSE UNCHANGED <<model_best, best_writes>>
    /\ steps' = Append(steps, "save")
    /\ pc' = "flush"
    /\ UNCHANGED <<entry, params, epoch, machine, trainLocals, valLocals,
                   testLocals, train_acc, val_acc, bestState, flushes, sched,
                   stopped, history>>

\* save_checkpoint(save_dir, state, is_best): lines 125-130 and 158-162
SaveCheckpoint ==
    /\ pc = "save"
    /\ LET state == [exists |-> TRUE, epoch |-> epoch, best_acc |-> best_acc,
                     state_dict |-> Resolve(StateDict(weights), weights)] IN
       /\ checkpoint' = state
       /\ ckpt_writes' = ckpt_writes + 1
       /\ IF is_best
          THEN model_best' = state /\ best_writes' = best_writes + 1
          ELSE UNCHANGED <<model_best, best_writes>>
    /\ steps' = Append(steps, "save")
    /\ pc' = "flush"
    /\ UNCHANGED <<entry, params, epoch, machine, trainLocals, valLocals,
                   testLocals, train_acc, val_acc, bestState, flushes, sched,
                   stopped, history>>

\* writer.export_scalars_to_json(...): line 132
FlushMetrics ==
    /\ pc = "flush"
    /\ flushes' = flushes + 1
    /\ steps' = Append(steps, "flush")
    /\ pc' = "sched"
    /\ UNCHANGED <<entry, params, epoch, machine, trainLocals, valLocals,
                   testLocals, train_acc, val_acc, bestState, checkpoint,
                   model_best, ckpt_writes, best_writes, sched, stopped,
                   history>>

\* the variant that never leaves the loop
SchedulerStepPlateauNoBreak ==
    /\ pc = "sched"
    /\ sched_kind = "plateau"
    /\ sched' = PlateauStep(sched, ValidError(val_acc))
    /\ steps' = steps \o <<"step", "consult">>
    /\ UNCHANGED stopped /\ pc' = "loop" /\ epoch' = epoch + 1
    /\ UNCHANGED <<entry, params, machine, trainLocals, valLocals, testLocals,
                   train_acc, val_acc, bestState, files, history>>

\* the variant that asks the scheduler before feeding it the error
SchedulerStepPlateauAskFirst ==
    /\ pc = "sched"
    /\ sched_kind = "plateau"
    /\ sched' = PlateauStep(sched, ValidError(val_acc))
    /\ steps' = steps \o <<"consult", "step">>
    /\ IF ShouldStopTraining(sched, maxPatienceToStopTraining)
       THEN stopped' = TRUE /\ pc' = "restore" /\ UNCHANGED epoch
       ELSE UNCHANGED stopped /\ pc' = "loop" /\ epoch' = epoch + 1
    /\ UNCHANGED <<entry, params, machine, trainLocals, valLocals, testLocals,
                   train_acc, val_acc, bestState, files, history>>

\* lines 133-140: the plateau scheduler is fed the error and then asked
SchedulerStepPlateau ==
    /\ pc = "sched"
    /\ sched_kind = "plateau"
    /\ LET s == PlateauStep(sched, ValidError(val_acc)) IN
       /\ sched' = s
       /\ steps' = steps \o <<"step", "consult">>
       /\ IF ShouldStopTraining(s, maxPatienceToStopTraining)
          THEN stopped' = TRUE /\ pc' = "restore" /\ UNCHANGED epoch
          ELSE UNCHANGED stopped /\ pc' = "loop" /\ epoch' = epoch + 1
    /\ UNCHANGED <<entry, params, machine, trainLocals, valLocals, testLocals,
                   train_acc, val_acc, bestState, files, history>>

\* lines 141-142
SchedulerStepOther ==
    /\ pc = "sched"
    /\ sched_kind # "plateau"
    /\ sched' = OtherStep(sched)
    /\ steps' = Append(steps, "step")
    /\ pc' = "loop"
    /\ epoch' = epoch + 1
    /\ UNCHANGED <<entry, params, machine, trainLocals, valLocals, testLocals,
                   train_acc, val_acc, bestState, files, stopped, history>>

\* after the loop: lines 144-155
RestoreBest ==
    /\ pc = "restore"
    /\ weights' = Resolve(best_model_wts, weights)
    /\ flushes' = flushes + 1
    /\ pc' = "returned"
    /\ UNCHANGED <<entry, params, epoch, opt, clips, trainLocals, valLocals,
                   testLocals, train_acc, val_acc, bestState, checkpoint,
                   model_best, ckpt_writes, best_writes, sched, stopped,
                   steps, history>>

\* ------------------------------------------------------------ test_model
\* test_model(...) is called, on a fresh model or on the trained one:
\* lines 165-170
CallTestModel ==
    /\ \/ pc = "start"
       \/ pc = "returned" /\ entry = "train_model"
    /\ \E n \in 0..MaxTestN : Ntest' = n
    /\ batch_size' = IF pc = "start" THEN MaxBatch ELSE batch_size
    /\ entry' = "test_model"
    /\ test_count' = 0 /\ test_corrects' = 0
    /\ pc' = "test"
    /\ UNCHANGED <<Ntrain, Nval, num_epochs, start_epoch, best_accuracy,
                   sched_kind, maxPatienceToStopTraining, epoch, machine,
                   trainLocals, valLocals, test_acc, train_acc, val_acc,
                   bestState, files, sched, stopped, steps, history>>

\* one iteration of the loop of test_model(): lines 173-185
TestBatch ==
    /\ pc = "test"
    /\ test_count < Ntest
    /\ LET size == BatchSize(Ntest, batch_size, test_count) IN
       \E c \in 0..size :
          /\ test_corrects' = test_corrects + c
          /\ test_count' = test_count + size
    /\ UNCHANGED <<entry, pc, params, epoch, machine, trainLocals, valLocals,
                   test_acc, train_acc, val_acc, bestState, files, sched,
                   stopped, steps, history>>

\* the loop of test_model() is over: lines 187-192
TestReturn ==
    /\ pc = "test"
    /\ test_count >= Ntest
    /\ IF Ntest = 0
       THEN \* running_corrects / len(dataloader.dataset) raises ZeroDivisionError
            pc' = "crashed" /\ UNCHANGED test_acc
       ELSE /\ test_acc' = Accuracy(test_corrects, test_count, Ntest)
            /\ pc' = "tested"
    /\ UNCHANGED <<entry, params, epoch, machine, trainLocals, valLocals,
                   test_count, test_corrects, train_acc, val_acc, bestState,
                   files, sched, stopped, steps, history>>

\* -------------------------------------------------------- specifications
Next ==
    \/ CallTrainModel
    \/ EpochBegin
    \/ LoopExit
    \/ TrainBatch
    \/ TrainReturn
    \/ ValidateBatch
    \/ ValidateReturn
    \/ BestDecision
    \/ SaveCheckpoint
    \/ FlushMetrics
    \/ SchedulerStepPlateau
    \/ SchedulerStepOther
    \/ RestoreBest
    \/ CallTestModel
    \/ TestBatch
    \/ TestReturn

Spec == Init /\ [][Next]_vars

\* a single call of train(model, dataloader, criterion, optimizer)
InitPass ==
    /\ entry = "train"
    /\ pc = "train"
    /\ Ntrain \in 0..MaxPassN
    /\ batch_size \in 1..MaxPassBatch
    /\ Nval = 0 /\ Ntest = 0
    /\ num_epochs = 0 /\ start_epoch = 0 /\ best_accuracy = Rat(0, 1)
    /\ sched_kind = "other" /\ maxPatienceToStopTraining = 0
    /\ epoch = 0
    /\ weights = 0
    /\ opt = [zero_grads |-> 0, steps |-> 0]
    /\ clips = 0
    /\ example_count = 0 /\ running_corrects = 0 /\ step = 0 /\ diag = 0
    /\ val_count = 0 /\ val_corrects = 0
    /\ test_count = 0 /\ test_corrects = 0 /\ test_acc = NoAcc
    /\ train_acc = NoAcc /\ val_acc = NoAcc
    /\ best_acc = Rat(0, 1) /\ best_model_wts = StateDict(0) /\ is_best = FALSE
    /\ checkpoint = NoFile /\ model_best = NoFile
    /\ ckpt_writes = 0 /\ best_writes = 0 /\ flushes = 0
    /\ sched = NewScheduler
    /\ stopped = FALSE
    /\ steps = <<>>
    /\ h_epochs = 0 /\ h_best_epochs = 0 /\ h_best_wts = 0
    /\ h_max_val = NoAcc /\ h_min_err = Rat(2, 1)
    /\ h_improving = TRUE /\ h_all50 = TRUE

NextPass ==
    \/ TrainBatch
    \/ TrainReturn

SpecPass == InitPass /\ [][NextPass]_vars

\* ================================================================ claims
InTrainModel == entry = "train_model" /\ pc # "crashed"
LoopOver == InTrainModel /\ pc \in {"restore", "returned"}
Hundred == Rat(100, 1)

\* C1: the replacement of the best weights is strict.  In an epoch whose
\* validation accuracy is equal to or below best_acc the decision sets is_best
\* to false and replaces neither best_acc nor the snapshot, and the save of
\* that epoch makes no best copy; best_acc is only ever replaced by a decision
\* with val_acc > best_acc.
C1_StrictReplacement ==
    [][/\ (pc = "decide" /\ ~Gt(val_acc, best_acc))
            => /\ is_best' = FALSE
               /\ best_acc' = best_acc
               /\ best_model_wts' = best_model_wts
               /\ h_best_wts' = h_best_wts
       /\ (pc = "save" /\ ~is_best)
            => /\ model_best' = model_best
               /\ best_writes' = best_writes
       /\ (pc # "start" /\ best_acc' # best_acc)
            => (pc = "decide" /\ Gt(val_acc, best_acc))
       /\ (pc # "start" /\ h_best_wts' # h_best_wts)
            => (pc = "decide" /\ Gt(val_acc, best_acc))]_vars

\* a tie was decided and saved
C1_Witness ==
    /\ InTrainModel /\ pc = "flush"
    /\ Eq(val_acc, best_acc) /\ ~is_best
    /\ h_best_epochs > 0
    /\ model_best.exists /\ model_best.epoch < epoch

\* C2: the snapshot is decoupled from the live model: it keeps the value the
\* weights had when it was taken, and the weights restored after the loop are
\* the weights of the end of the last epoch in which is_best was true (the
\* initial ones if there was none).
C2_SnapshotDecoupled ==
    InTrainModel =>
        /\ Resolve(best_model_wts, weights) = h_best_wts
        /\ pc = "returned" => weights = h_best_wts

\* C3: a train pass over N >= B examples processes floor(N / B) full batches
\* and stops: no batch is consumed once example_count + B > N.
C3_FullBatchesOnly ==
    /\ (pc = "train" /\ step > 0) => example_count + batch_size <= Ntrain
    /\ (pc \in {"train_end", "returned"} /\ Ntrain >= batch_size)
          => /\ step = Ntrain \div batch_size
             /\ example_count = batch_size * (Ntrain \div batch_size)
             /\ opt.steps = Ntrain \div batch_size

\* 10 examples in batches of 4: two batches, 8 examples, 2 left
C3_Witness ==
    /\ pc = "returned" /\ Ntrain = 10 /\ batch_size = 4
    /\ step = 2 /\ example_count = 8

\* C4: with 0 < N < batch_size the train pass processes no batch.
C4_ShortDatasetSkipped ==
    (pc \in {"train_end", "returned"} /\ 0 < Ntrain /\ Ntrain < batch_size)
        => /\ example_count = 0
           /\ step = 0
           /\ opt.steps = 0
           /\ weights = 0
           /\ diag = 0

C5_WitnessImproving ==
    /\ LoopOver /\ sched_kind = "plateau" /\ h_improving /\ h_epochs = 3

\* C6: checkpoint.pth.tar is written once per executed epoch and
\* model_best.pth.tar in exactly the epochs with is_best; with an initial best
\* of 0 and a validation accuracy of 50 in each of 3 epochs there are 3
\* checkpoint writes and 1 best copy, that of the first epoch.
C6_CheckpointWrites ==
    InTrainModel =>
        /\ ckpt_writes = h_epochs -
              (IF pc \in {"train", "train_end", "validate", "decide", "save"}
               THEN 1 ELSE 0)
        /\ best_writes = h_best_epochs -
              (IF pc = "save" /\ is_best THEN 1 ELSE 0)
        /\ checkpoint.exists <=> ckpt_writes > 0
        /\ model_best.exists <=> best_writes > 0
        /\ (pc \in {"flush", "sched"}) => checkpoint.epoch = epoch
        /\ (LoopOver /\ h_epochs = 3 /\ h_all50 /\ Eq(best_accuracy, Rat(0, 1)))
              => /\ ckpt_writes = 3
                 /\ best_writes = 1
                 /\ model_best.epoch = start_epoch

\* the scenario: 3 epochs at 50 from an initial best of 0
C6_Witness ==
    /\ LoopOver /\ pc = "returned"
    /\ start_epoch = 0 /\ num_epochs = 3 /\ h_epochs = 3
    /\ h_all50 /\ Eq(best_accuracy, Rat(0, 1))
    /\ ckpt_writes = 3 /\ best_writes = 1

\* C7: the accuracy a pass returns is 100 * correct / N with N the size of
\* the whole dataset; a train pass that processed fewer than N examples, all
\* of them correctly, returns less than 100.
C7_AccuracyDenominator ==
    /\ (InTrainModel /\ pc \in {"validate", "decide", "save", "flush", "sched"})
          => /\ train_acc.num * Ntrain = 100 * running_corrects * train_acc.den
             /\ (example_count < Ntrain /\ running_corrects = example_count)
                   => Lt(train_acc, Hundred)
    /\ (InTrainModel /\ pc \in {"decide", "save", "flush", "sched"})
          => val_acc.num * Nval = 100 * val_corrects * val_acc.den
    /\ pc = "tested"
          => test_acc.num * Ntest = 100 * test_corrects * test_acc.den

\* a truncated train pass with every processed example predicted correctly
C7_Witness ==
    /\ InTrainModel /\ pc = "decide"
    /\ 0 < example_count /\ example_count < Ntrain
    /\ running_corrects = example_count
    /\ Lt(train_acc, Hundred)

\* C8: a validate pass and a test pass leave the weights, the optimizer and
\* the gradients alone and consume every batch of their loader.
C8_EvalFrame ==
    /\ [][(pc \in {"validate", "test"})
             => /\ weights' = weights
                /\ opt' = opt
                /\ clips' = clips]_vars
    /\ []((InTrainModel /\ pc = "decide") => val_count = Nval)
    /\ [](pc = "tested" => test_count = Ntest)

\* a trained model was validated and tested on more than one batch each
C8_Witness ==
    /\ pc = "tested" /\ opt.steps > 0
    /\ test_count = Ntest /\ Ntest > batch_size
    /\ val_count = Nval /\ Nval > batch_size

\* C9: the steps of an epoch run in the order train, validate, decide, save,
\* flush, scheduler step; the scheduler is stepped once per executed epoch and
\* asked only after that step, so that when the loop is left by the break the
\* checkpoint and the metric log of that epoch are written.
EpochOrder ==
    IF sched_kind = "plateau"
    THEN <<"train", "validate", "decide", "save", "flush", "step", "consult">>
    ELSE <<"train", "validate", "decide", "save", "flush", "step">>

C9_EpochOrder ==
    InTrainModel =>
        /\ Len(steps) <= Len(EpochOrder)
        /\ steps = SubSeq(EpochOrder, 1, Len(steps))
        /\ sched.nsteps = h_epochs -
              (IF pc \in {"train", "train_end", "validate", "decide", "save",
                          "flush", "sched"} THEN 1 ELSE 0)
        /\ stopped
              => /\ ShouldStopTraining(sched, maxPatienceToStopTraining)
                 /\ steps = EpochOrder
                 /\ ckpt_writes = h_epochs
                 /\ checkpoint.epoch = epoch
                 /\ flushes >= h_epochs

\* the break of the second epoch, after its checkpoint and flush
C9_Witness ==
    /\ InTrainModel /\ pc = "restore" /\ stopped
    /\ h_epochs = 2 /\ ckpt_writes = 2 /\ flushes = 2
    /\ checkpoint.epoch = epoch

\* C10: after every epoch best_acc is at least the initial best_accuracy and
\* every validation accuracy observed, never decreases, and is the best_acc
\* of the latest checkpoint; the best_acc of model_best.pth.tar, once it
\* exists, is that of the latest checkpoint.
C10_BestAcc ==
    /\ []((entry = "train_model" /\ pc \notin {"decide", "save"})
            => /\ Geq(best_acc, best_accuracy)
               /\ Geq(best_acc, h_max_val)
               /\ checkpoint.exists => checkpoint.best_acc = best_acc
               /\ model_best.exists
                     => Eq(model_best.best_acc, checkpoint.best_acc))
    /\ [][Geq(best_acc', best_acc)]_vars

\* a later epoch below the best one, after a best copy was made
C10_Witness ==
    /\ InTrainModel /\ pc = "loop"
    /\ model_best.exists /\ checkpoint.epoch > model_best.epoch
    /\ Lt(val_acc, best_acc)
    /\ Gt(best_acc, best_accuracy)

====
